---- MODULE Spec2Model ----
(***************************************************************************)
(* The awooter router entry point (src/common/route/awooter/src/lib.rs):   *)
(* nextpnr_router_awooter moves the host's nets into a Nets table, route() *)
(* extracts the arcs, pre-filters the reserved-resource arcs, partitions   *)
(* the rest twice into 16 leaf boxes, routes the leaves on rayon's pool    *)
(* and then routes the special arcs in one serial pass.                    *)
(*                                                                         *)
(* npnr.rs, partition.rs and route.rs are not among the source files: the  *)
(* host queries, the partitioner's classification and the router worker    *)
(* are modelled from the specification's description of them.             *)
(* Vec<Arc> values are modelled as bags: no statement depends on the order *)
(* of an arc list, and HashMap iteration order is arbitrary.               *)
(***************************************************************************)
EXTENDS Integers, Sequences, FiniteSets, Bags, TLC

(* ------------------------------ bounds ------------------------------- *)

\* most nets a host dictionary holds
MaxNets == 2
\* most threads rayon's pool has (rayon::current_num_threads)
MaxThreads == 2
\* most invocations of the entry point against one context
MaxCalls == 2
\* grid_dim_x and grid_dim_y of the routed device
GridX == 4
GridY == 4
\* largest grid dimension of the box-tiling specification
MaxTile == 3

\* for _ in 0..2: depth of the partition recursion
Levels == 2

(* ------------------------- host (input) data -------------------------- *)

\* Option::None of the ctx argument
None == "none"
\* cxx::UniquePtr::null(): net handles are 1, 2, ...
NullPtr == 0

Coord(x, y) == [x |-> x, y |-> y]

\* ctx.name_of_wire: the wire names of the modelled device, as characters
WireName(w) ==
    CASE w = "F1"   -> <<"F", "1">>
      [] w = "FCO"  -> <<"F", "C", "O", "_", "S", "L", "I", "C", "E">>
      [] w = "Q6"   -> <<"Q", "6", "_", "S", "L", "I", "C", "E">>
      [] w = "JF2"  -> <<"J", "F", "2">>
      [] w = "DDRS" -> <<"D", "D", "R", "D", "L", "L">>
      [] w = "A1"   -> <<"A", "1">>
      [] w = "B9"   -> <<"B", "9">>
      [] w = "JB1"  -> <<"J", "B", "1">>
      [] w = "DDRD" -> <<"E", "C", "L", "K", "D", "D", "R">>
      [] w = "PAD"  -> <<"X", "1", "2", "6", "/", "Y", "2", "0", "/",
                         "P", "A", "D", "D", "O", "D", "_", "P", "I", "O">>

\* sink wires no path reaches (the router's search fails on them)
IsolatedWires == {"B9"}

Sink(x, y, wires) == [loc |-> Coord(x, y), wires |-> wires]

Net(global, driver, x, y, wire, users) ==
    [global |-> global, driver |-> driver, loc |-> Coord(x, y),
     source_wire |-> wire, users |-> users]

\* driver: "cell" (a port with a cell), "nocell" (a port whose cell is
\* null), "noport" (a null PortRef pointer)
NetLocal    == Net(FALSE, "cell",   0, 0, "F1",
                   <<Sink(0, 0, <<"A1", "JB1">>), Sink(3, 3, <<"B9">>)>>)
NetGlobal   == Net(TRUE,  "cell",   1, 1, "F1", <<Sink(1, 1, <<"A1">>)>>)
NetNoCell   == Net(FALSE, "nocell", 0, 0, "F1", <<Sink(2, 2, <<"A1">>)>>)
NetNoPort   == Net(FALSE, "noport", 0, 0, "F1", <<Sink(2, 2, <<"A1">>)>>)
NetFco      == Net(FALSE, "cell",   2, 1, "FCO", <<Sink(2, 1, <<"A1">>)>>)
NetQ6       == Net(FALSE, "cell",   3, 3, "Q6", <<Sink(3, 3, <<"A1">>)>>)
NetJ        == Net(FALSE, "cell",   0, 3, "JF2", <<Sink(0, 3, <<"A1">>)>>)
NetDdr      == Net(FALSE, "cell",   1, 0, "DDRS", <<Sink(1, 0, <<"A1">>)>>)
NetPad      == Net(FALSE, "cell",   3, 0, "F1",
                   <<Sink(3, 0, <<"PAD">>), Sink(3, 0, <<"DDRD", "PAD">>)>>)
NetPadSrc   == Net(FALSE, "cell",   1, 2, "PAD", <<Sink(1, 2, <<"A1">>)>>)

CoreNets == {NetLocal, NetGlobal, NetNoPort}
AllNets  == {NetLocal, NetGlobal, NetNoCell, NetNoPort, NetFco, NetQ6, NetJ,
             NetDdr, NetPad, NetPadSrc}

\* the IdString under which the host dictionary holds its k-th net
NameOf(k) == <<"net", k>>

(* ------------------------------- state -------------------------------- *)

VARIABLES
    ctxArg,        \* the ctx argument: None or "ctx"
    hostNets,      \* the host dictionary's nets, in dictionary order
    hostSlot,      \* per net: the dictionary's UniquePtr<NetInfo> (k or NullPtr)
    udata,         \* per net: NetInfo::udata
    grid_dim,      \* ctx.grid_dim_x(), ctx.grid_dim_y()
    numThreads,    \* rayon::current_num_threads()
    policy,        \* the partitioner's split policy
    calls,         \* invocations so far
    pc,            \* where the current invocation is
    panicAt,       \* which expect/unwrap panicked
    result,        \* the returned bool: "none" until a return
    index_to_net,  \* Vec of names
    i,             \* the setup loop's index
    nets,          \* HashMap name -> liberated net handle
    users,         \* HashMap name -> users
    arcs,          \* extract_arcs_from_nets's result
    special_arcs,
    partitions,    \* Vec<(min, max, arcs, name)>
    new_partitions,
    level,         \* iteration of for _ in 0..2
    cursor,        \* position of the inner loop in partitions
    threads,       \* the RouterThreads created so far
    unrouted       \* arcs the router recorded as unrouted

hostVars == <<ctxArg, hostNets, grid_dim, numThreads, policy>>
setupVars == <<index_to_net, i, nets, users>>
routeVars == <<arcs, special_arcs, partitions, new_partitions, level, cursor,
               threads, unrouted>>
vars == <<ctxArg, hostNets, hostSlot, udata, grid_dim, numThreads, policy,
          calls, pc, panicAt, result, index_to_net, i, nets, users, arcs,
          special_arcs, partitions, new_partitions, level, cursor, threads,
          unrouted>>

NetIds == 1..Len(hostNets)

\* the locals of an invocation that has not run yet
FreshLocals ==
    /\ index_to_net = <<>>
    /\ i = 0
    /\ nets = <<>>
    /\ users = <<>>
    /\ arcs = EmptyBag
    /\ special_arcs = EmptyBag
    /\ partitions = <<>>
    /\ new_partitions = <<>>
    /\ level = 0
    /\ cursor = 1
    /\ threads = <<>>
    /\ unrouted = EmptyBag

InitWith(netKinds, threadCounts) ==
    /\ ctxArg \in {None, "ctx"}
    /\ hostNets \in UNION {[1..n -> netKinds] : n \in 0..MaxNets}
    /\ hostSlot = [k \in NetIds |-> k]
    /\ udata = [k \in NetIds |-> 0]
    /\ grid_dim = Coord(GridX, GridY)
    /\ numThreads \in threadCounts
    /\ policy = "center"
    /\ calls = 0
    /\ pc = "idle"
    /\ panicAt = "none"
    /\ result = "none"
    /\ FreshLocals

Init == InitWith(CoreNets, 1..MaxThreads)

(* --------------------- nextpnr_router_awooter ------------------------- *)

\* mutant: the None check is lost and the pointer is used as it is
CtxNeverNone(c) == FALSE

\* ctx.expect("Context* should be non-null") panics
CtxIsNone(c) == c = None

\* npnr_nets_names: the dictionary's keys
NetsNames == [k \in NetIds |-> NameOf(k)]

\* the dictionary slot move_net(&name) returns a reference to
SlotOf(name) == CHOOSE k \in NetIds : NameOf(k) = name

Panic(where) ==
    /\ pc' = "panicked"
    /\ panicAt' = where

\* the locals of route() before it has run
FreshRoute ==
    /\ arcs' = EmptyBag
    /\ special_arcs' = EmptyBag
    /\ partitions' = <<>>
    /\ new_partitions' = <<>>
    /\ level' = 0
    /\ cursor' = 1
    /\ threads' = <<>>
    /\ unrouted' = EmptyBag

\* a call of the entry point with a null context: expect() panics
CallNull ==
    /\ pc \in {"idle", "returned", "panicked"}
    /\ calls < MaxCalls
    /\ CtxIsNone(ctxArg)
    /\ calls' = calls + 1
    /\ Panic("ctx.expect")
    /\ result' = "none"
    /\ index_to_net' = <<>>
    /\ i' = 0
    /\ nets' = <<>>
    /\ users' = <<>>
    /\ FreshRoute
    /\ UNCHANGED <<hostVars, hostSlot, udata>>

\* a call of the entry point: every local starts afresh
Call ==
    /\ pc \in {"idle", "returned", "panicked"}
    /\ calls < MaxCalls
    /\ ~CtxIsNone(ctxArg)
    /\ calls' = calls + 1
    /\ pc' = "setup"
    /\ panicAt' = "none"
    /\ result' = "none"
    /\ index_to_net' = NetsNames
    /\ i' = 0
    /\ nets' = <<>>
    /\ users' = <<>>
    /\ FreshRoute
    /\ UNCHANGED <<hostVars, hostSlot, udata>>

\* npnr_netinfo_udata_set(net.pin_mut(), i as _)
UdataOf(idx) == idx

\* mutant: the handle is copied out and the slot keeps it
SlotKeepsHandle(handle) == handle

\* what std::mem::replace(net, cxx::UniquePtr::null()) leaves in the slot
SlotAfterReplace(handle) == NullPtr

\* m with key k set to v
Put(m, k, v) == [x \in DOMAIN m \cup {k} |-> IF x = k THEN v ELSE m[x]]

\* one iteration of the setup loop on a slot that still holds its net
SetupStep ==
    /\ pc = "setup"
    /\ i < Len(index_to_net)
    /\ LET name == index_to_net[i + 1]
           k == SlotOf(name)
           net == hostSlot[k]
       IN /\ net # NullPtr
          /\ udata' = [udata EXCEPT ![net] = UdataOf(i)]
          /\ hostSlot' = [hostSlot EXCEPT ![k] = SlotAfterReplace(net)]
          /\ nets' = Put(nets, name, net)
          /\ users' = Put(users, name, hostNets[net].users)
    /\ i' = i + 1
    /\ UNCHANGED <<hostVars, calls, pc, panicAt, result, index_to_net, routeVars>>

\* net.pin_mut() on a null UniquePtr panics
SetupPanic ==
    /\ pc = "setup"
    /\ i < Len(index_to_net)
    /\ hostSlot[SlotOf(index_to_net[i + 1])] = NullPtr
    /\ Panic("pin_mut")
    /\ UNCHANGED <<hostVars, hostSlot, udata, calls, result, setupVars, routeVars>>

\* the loop is over: route(ctx, nets, pressure, history) is entered
EnterRoute ==
    /\ pc = "setup"
    /\ i = Len(index_to_net)
    /\ pc' = "route"
    /\ UNCHANGED <<hostVars, hostSlot, udata, calls, panicAt, result, setupVars,
                   routeVars>>

(* ------------------------ extract_arcs_from_nets ----------------------- *)

RECURSIVE SumBags(_)
\* the bag union of a sequence of bags
SumBags(bs) == IF bs = <<>> THEN EmptyBag ELSE SumBags(Tail(bs)) (+) Head(bs)

\* the NetInfo a liberated handle points to
NetInfoOf(name) == hostNets[nets[name]]

\* net.index(): the udata set during setup
IndexOf(name) == udata[nets[name]]

\* nets.name_from_index
name_from_index(idx) == index_to_net[idx + 1]

\* route::Arc::new
ArcNew(source_wire, source, sink_wire, sink, net, name) ==
    [source_wire |-> source_wire, source |-> source, sink_wire |-> sink_wire,
     sink |-> sink, net |-> net, name |-> name]

\* the candidate sink wires ctx.sink_wires(&net, sink_ref) enumerates
SinkWires(sink_ref) == sink_ref.wires

\* the arcs the inner loops push for one sink pin
SinkArcs(name, sink_ref) ==
    LET net == NetInfoOf(name)
    IN SumBags([w \in 1..Len(SinkWires(sink_ref)) |->
                   SetToBag({ArcNew(net.source_wire, net.loc,
                                    SinkWires(sink_ref)[w], sink_ref.loc,
                                    IndexOf(name),
                                    name_from_index(IndexOf(name)))})])

\* mutant: the is_global() test is lost
SkipsNetDriverOnly(name) == NetInfoOf(name).driver # "cell"

\* whether the loop body skips the net: net.is_global(), or no driver cell
SkipsNet(name) ==
    \/ NetInfoOf(name).global
    \/ NetInfoOf(name).driver # "cell"

\* the arcs one iteration of the outer loop pushes
NetArcs(name) ==
    IF SkipsNet(name)
    THEN EmptyBag
    ELSE SumBags([u \in 1..Len(users[name]) |-> SinkArcs(name, users[name][u])])

\* port_ref.as_ref().unwrap() panics on a null driver pointer
DriverUnwrapPanics ==
    \E name \in DOMAIN nets :
        /\ ~NetInfoOf(name).global
        /\ NetInfoOf(name).driver = "noport"

extract_arcs_from_nets ==
    SumBags([k \in 1..Len(index_to_net) |-> NetArcs(index_to_net[k])])

(* ------------------------------- route -------------------------------- *)

\* binding.into_iter().max_by_key(..).unwrap() on an empty net table
RoutePanic ==
    /\ pc = "route"
    /\ DOMAIN nets = {}
    /\ Panic("max_by_key")
    /\ UNCHANGED <<hostVars, hostSlot, udata, calls, result, setupVars, routeVars>>

\* the statistics and log lines before the extraction
RoutePrelude ==
    /\ pc = "route"
    /\ DOMAIN nets # {}
    /\ pc' = "extract"
    /\ UNCHANGED <<hostVars, hostSlot, udata, calls, panicAt, result, setupVars,
                   routeVars>>

ExtractPanic ==
    /\ pc = "extract"
    /\ DriverUnwrapPanics
    /\ Panic("driver.unwrap")
    /\ UNCHANGED <<hostVars, hostSlot, udata, calls, result, setupVars, routeVars>>

Extract ==
    /\ pc = "extract"
    /\ ~DriverUnwrapPanics
    /\ arcs' = extract_arcs_from_nets
    /\ pc' = "prefilter"
    /\ UNCHANGED <<hostVars, hostSlot, udata, calls, panicAt, result, setupVars,
                   special_arcs, partitions, new_partitions, level, cursor,
                   threads, unrouted>>

\* str::contains on character sequences
Contains(s, pat) ==
    \E at \in 1..(Len(s) - Len(pat) + 1) : SubSeq(s, at, at + Len(pat) - 1) = pat

PatFco == <<"F", "C", "O", "_", "S", "L", "I", "C", "E">>
PatQ6  == <<"Q", "6", "_", "S", "L", "I", "C", "E">>
PatJ   == <<"J">>
PatDdr == <<"D", "D", "R">>
PatPad == <<"X", "1", "2", "6", "/", "Y", "2", "0", "/",
            "P", "A", "D", "D", "O", "D", "_", "P", "I", "O">>

\* mutant: the sink-side DDR test is lost
IsReservedNoSinkDdr(src_name, dst_name) ==
    \/ Contains(src_name, PatFco)
    \/ Contains(src_name, PatQ6)
    \/ Contains(src_name, PatJ)
    \/ Contains(src_name, PatDdr)
    \/ Contains(dst_name, PatPad)

\* the condition of the pre-filter on the two wire names
IsReserved(src_name, dst_name) ==
    \/ Contains(src_name, PatFco)
    \/ Contains(src_name, PatQ6)
    \/ Contains(src_name, PatJ)
    \/ Contains(src_name, PatDdr)
    \/ Contains(dst_name, PatDdr)
    \/ Contains(dst_name, PatPad)

ArcIsReserved(arc) ==
    IsReserved(WireName(arc.source_wire), WireName(arc.sink_wire))

\* the arcs the loop pushes to special_arcs
ReservedArcs(list) ==
    [a \in {e \in BagToSet(list) : ArcIsReserved(e)} |-> list[a]]

\* the arcs the loop pushes to partitionable_arcs
PartitionableArcs(list) ==
    [a \in {e \in BagToSet(list) : ~ArcIsReserved(e)} |-> list[a]]

Partition(min, max, list, name) ==
    [min |-> min, max |-> max, arcs |-> list, name |-> name]

PreFilter ==
    /\ pc = "prefilter"
    /\ special_arcs' = ReservedArcs(arcs)
    /\ partitions' = <<Partition(Coord(0, 0), Coord(grid_dim.x, grid_dim.y),
                                 PartitionableArcs(arcs), <<>>)>>
    /\ pc' = "partition"
    /\ UNCHANGED <<hostVars, hostSlot, udata, calls, panicAt, result, setupVars,
                   arcs, new_partitions, level, cursor, threads, unrouted>>

(* --------------- partition::find_partition_point_and_sanity_check ----- *)

\* the split points the partitioner may answer for a box
SplitChoices(min, max) ==
    IF policy = "center"
    THEN {Coord((min.x + max.x) \div 2, (min.y + max.y) \div 2)}
    ELSE {Coord(x, y) : x \in min.x..max.x, y \in min.y..max.y}

\* the quadrant of a location relative to the split point
QuadrantOf(loc, x_part, y_part) ==
    IF loc.x < x_part
    THEN (IF loc.y < y_part THEN "NE" ELSE "NW")
    ELSE (IF loc.y < y_part THEN "SE" ELSE "SW")

\* an arc belongs to a quadrant when both endpoints lie in it, else it is special
ArcClass(arc, x_part, y_part) ==
    IF QuadrantOf(arc.source, x_part, y_part) = QuadrantOf(arc.sink, x_part, y_part)
    THEN QuadrantOf(arc.source, x_part, y_part)
    ELSE "special"

ArcsOfClass(list, x_part, y_part, class) ==
    [a \in {e \in BagToSet(list) : ArcClass(e, x_part, y_part) = class} |-> list[a]]

find_partition_point(list, split) ==
    [x_part |-> split.x, y_part |-> split.y,
     ne |-> ArcsOfClass(list, split.x, split.y, "NE"),
     se |-> ArcsOfClass(list, split.x, split.y, "SE"),
     sw |-> ArcsOfClass(list, split.x, split.y, "SW"),
     nw |-> ArcsOfClass(list, split.x, split.y, "NW"),
     special |-> ArcsOfClass(list, split.x, split.y, "special")]

(* -------------------------- the partition loop ------------------------ *)

\* mutant: the NW box starts at the split point, as the SW box does
ChildBoxesNwFromSplit(min, max, x_part, y_part) ==
    <<[min |-> Coord(x_part, min.y), max |-> Coord(max.x, y_part), q |-> "SE"],
      [min |-> Coord(x_part, y_part), max |-> max,                 q |-> "SW"],
      [min |-> min,                   max |-> Coord(x_part, y_part), q |-> "NE"],
      [min |-> Coord(x_part, y_part), max |-> Coord(x_part, max.y), q |-> "NW"]>>

\* the four boxes pushed for a parent box and a split point, in push order
ChildBoxes(min, max, x_part, y_part) ==
    <<[min |-> Coord(x_part, min.y), max |-> Coord(max.x, y_part), q |-> "SE"],
      [min |-> Coord(x_part, y_part), max |-> max,                 q |-> "SW"],
      [min |-> min,                   max |-> Coord(x_part, y_part), q |-> "NE"],
      [min |-> Coord(min.x, y_part),  max |-> Coord(x_part, max.y), q |-> "NW"]>>

\* the arc list pushed with each box
ChildArcs(r, q) ==
    CASE q = "SE" -> r.se
      [] q = "SW" -> r.sw
      [] q = "NE" -> r.ne
      [] q = "NW" -> r.nw

\* the four entries pushed to new_partitions for one parent
ChildPartitions(parent, r) ==
    LET boxes == ChildBoxes(parent.min, parent.max, r.x_part, r.y_part)
    IN [c \in 1..4 |-> Partition(boxes[c].min, boxes[c].max,
                                 ChildArcs(r, boxes[c].q),
                                 Append(parent.name, boxes[c].q))]

\* mutant: the special list is assigned, not extended
ExtendSpecialAssigns(list, special) == special

\* special_arcs.extend(special.into_iter())
ExtendSpecial(list, special) == list (+) special

\* one iteration of the inner loop
PartitionCall ==
    /\ pc = "partition"
    /\ cursor <= Len(partitions)
    /\ \E split \in SplitChoices(partitions[cursor].min, partitions[cursor].max) :
          LET parent == partitions[cursor]
              r == find_partition_point(parent.arcs, split)
          IN /\ special_arcs' = ExtendSpecial(special_arcs, r.special)
             /\ new_partitions' = new_partitions \o ChildPartitions(parent, r)
    /\ cursor' = cursor + 1
    /\ UNCHANGED <<hostVars, hostSlot, udata, calls, pc, panicAt, result,
                   setupVars, arcs, partitions, level, threads, unrouted>>

\* the end of one iteration of for _ in 0..2
LevelDone ==
    /\ pc = "partition"
    /\ cursor > Len(partitions)
    /\ partitions' = new_partitions
    /\ new_partitions' = <<>>
    /\ level' = level + 1
    /\ cursor' = 1
    /\ pc' = IF level + 1 = Levels THEN "parallel" ELSE "partition"
    /\ UNCHANGED <<hostVars, hostSlot, udata, calls, panicAt, result, setupVars,
                   arcs, special_arcs, threads, unrouted>>

(* ------------------------- the router workers ------------------------- *)

\* route::RouterThread::new
RouterThreadNew(box_ne, box_sw, list, id) ==
    [box_ne |-> box_ne, box_sw |-> box_sw, arcs |-> list, id |-> id,
     state |-> "running"]

\* the grid coordinates a worker's box (box_ne, box_sw) bounds: a coordinate
\* lies in a box b, corners and edges included
InBox(x, y, b) == b.min.x <= x /\ x <= b.max.x /\ b.min.y <= y /\ y <= b.max.y

\* the arcs of a work list for which the path search finds no path
FailedArcs(list) ==
    [a \in {e \in BagToSet(list) : e.sink_wire \in IsolatedWires} |-> list[a]]

Running == {t \in 1..Len(threads) : threads[t].state = "running"}

\* the partition par_iter hands to the next closure call: the pool's threads
\* take the partitions in list order, at most numThreads closures run at a
\* time, and they return in any order
NextPartition == Len(threads) + 1

\* mutant: the closures are spawned and not joined
ParJoinedAllSpawned == Len(threads) = Len(partitions)

\* partitions.par_iter().for_each(..) has returned: every closure call is over
ParJoined ==
    /\ Len(threads) = Len(partitions)
    /\ Running = {}

\* a pool thread enters the closure for the next partition
WorkerStart ==
    /\ pc = "parallel"
    /\ Len(threads) < Len(partitions)
    /\ Cardinality(Running) < numThreads
    /\ LET p == partitions[NextPartition]
       IN threads' = Append(threads, RouterThreadNew(p.min, p.max, p.arcs, p.name))
    /\ UNCHANGED <<hostVars, hostSlot, udata, calls, pc, panicAt, result,
                   setupVars, arcs, special_arcs, partitions, new_partitions,
                   level, cursor, unrouted>>

\* router.route(&ctx, &nets, &mut thread) returns in a pool thread
WorkerFinish ==
    /\ pc = "parallel"
    /\ \E t \in Running :
          /\ threads' = [threads EXCEPT ![t].state = "done"]
          /\ unrouted' = unrouted (+) FailedArcs(threads[t].arcs)
    /\ UNCHANGED <<hostVars, hostSlot, udata, calls, pc, panicAt, result,
                   setupVars, arcs, special_arcs, partitions, new_partitions,
                   level, cursor>>

\* the MISC RouterThread is built and its router.route call begins
MiscStart ==
    /\ pc = "parallel"
    /\ ParJoined
    /\ threads' = Append(threads,
                         RouterThreadNew(Coord(0, 0), Coord(grid_dim.x, grid_dim.y),
                                         special_arcs, <<"MISC">>))
    /\ pc' = "misc"
    /\ UNCHANGED <<hostVars, hostSlot, udata, calls, panicAt, result, setupVars,
                   arcs, special_arcs, partitions, new_partitions, level, cursor,
                   unrouted>>

\* the value route() returns
RouteResult(failed) == "true"

\* the MISC pass ends and route() returns
MiscFinish ==
    /\ pc = "misc"
    /\ threads' = [threads EXCEPT ![Len(threads)].state = "done"]
    /\ unrouted' = unrouted (+) FailedArcs(threads[Len(threads)].arcs)
    /\ result' = RouteResult(unrouted')
    /\ pc' = "returned"
    /\ UNCHANGED <<hostVars, hostSlot, udata, calls, panicAt, setupVars, arcs,
                   special_arcs, partitions, new_partitions, level, cursor>>

Next ==
    \/ CallNull \/ Call \/ SetupStep \/ SetupPanic \/ EnterRoute
    \/ RoutePanic \/ RoutePrelude \/ ExtractPanic \/ Extract \/ PreFilter
    \/ PartitionCall \/ LevelDone
    \/ WorkerStart \/ WorkerFinish \/ MiscStart \/ MiscFinish

Spec == Init /\ [][Next]_vars

\* every kind of net, on a pool of one thread
InitNets == InitWith(AllNets, {1})

SpecNets == InitNets /\ [][Next]_vars

\* The partition loop on every root box up to MaxTile and every split point
\* the partitioner can answer: the state before the loop of a context whose
\* one net is global (no arc is extracted).
InitTiling ==
    /\ ctxArg = "ctx"
    /\ hostNets = <<NetGlobal>>
    /\ hostSlot = <<NullPtr>>
    /\ udata = <<0>>
    /\ grid_dim \in {Coord(x, y) : x \in 1..MaxTile, y \in 1..MaxTile}
    /\ numThreads = 1
    /\ policy = "any"
    /\ calls = 1
    /\ pc = "partition"
    /\ panicAt = "none"
    /\ result = "none"
    /\ index_to_net = <<NameOf(1)>>
    /\ i = 1
    /\ nets = Put(<<>>, NameOf(1), 1)
    /\ users = Put(<<>>, NameOf(1), NetGlobal.users)
    /\ arcs = EmptyBag
    /\ special_arcs = EmptyBag
    /\ partitions = <<Partition(Coord(0, 0), grid_dim, EmptyBag, <<>>)>>
    /\ new_partitions = <<>>
    /\ level = 0
    /\ cursor = 1
    /\ threads = <<>>
    /\ unrouted = EmptyBag

NextTiling == PartitionCall \/ LevelDone

SpecTiling == InitTiling /\ [][NextTiling]_vars

(* ------------------------------- claims ------------------------------- *)

\* the leaf partitions after the loop: four per parent and level
LeafCount == 4 ^ Levels

PartitioningDone == pc \in {"parallel", "misc", "returned"}

Extracted == pc \in {"prefilter", "partition", "parallel", "misc", "returned"}

PreFiltered == pc \in {"partition", "parallel", "misc", "returned"}

ArcsOf(seq) == SumBags([k \in 1..Len(seq) |-> seq[k].arcs])

LeafThreads == {t \in 1..Len(threads) : threads[t].id # <<"MISC">>}

MiscThreads == {t \in 1..Len(threads) : threads[t].id = <<"MISC">>}

\* C1: arc conservation. From the pre-filter on, the special list, the
\* partitions still to split and the partitions already pushed hold every
\* extracted arc exactly once; after the two levels there are 16 leaves; each
\* leaf is handed to at most one RouterThread, with its own arc list; and when
\* route() returns the work lists of the 16 leaf workers and the MISC worker
\* together are the extracted arcs, each exactly once.
C1_ArcConservation ==
    /\ PreFiltered =>
          special_arcs (+) ArcsOf(SubSeq(partitions, cursor, Len(partitions)))
                       (+) ArcsOf(new_partitions) = arcs
    /\ PartitioningDone =>
          /\ Len(partitions) = LeafCount
          /\ special_arcs (+) ArcsOf(partitions) = arcs
          /\ \A a, b \in 1..LeafCount : a # b => partitions[a].name # partitions[b].name
    /\ \A t \in LeafThreads :
          /\ threads[t].arcs = partitions[t].arcs
          /\ threads[t].id = partitions[t].name
          /\ \A t2 \in LeafThreads : t2 # t => threads[t2].id # threads[t].id
    /\ pc = "returned" =>
          /\ Len(threads) = LeafCount + 1
          /\ Cardinality(MiscThreads) = 1
          /\ ArcsOf(threads) = arcs

\* C1 witness: a returned run in which a leaf worker and the MISC worker both
\* had arcs, some special by the pre-filter and some by the partitioner
C1_Witness ==
    /\ pc = "returned"
    /\ \E t \in LeafThreads : threads[t].arcs # EmptyBag
    /\ \E a \in BagToSet(special_arcs) : ArcIsReserved(a)
    /\ \E a \in BagToSet(special_arcs) : ~ArcIsReserved(a)
    /\ \E a \in BagToSet(arcs) : arcs[a] > 1

Area(b) == (b.max.x - b.min.x) * (b.max.y - b.min.y)

RECURSIVE SumAreas(_)
SumAreas(boxes) ==
    IF boxes = <<>> THEN 0 ELSE Area(Head(boxes)) + SumAreas(Tail(boxes))

\* the unit square whose low corner is (x, y) lies in a box
SquareInBox(x, y, b) ==
    b.min.x <= x /\ x + 1 <= b.max.x /\ b.min.y <= y /\ y + 1 <= b.max.y

\* the boxes kids tile box parent: none leaves it, every coordinate of it is
\* in one of them, the areas add up, and every unit square of it is in
\* exactly one of them (two kids meet on boundaries only)
Tiles(parent, kids) ==
    /\ \A k \in 1..Len(kids) :
          /\ parent.min.x <= kids[k].min.x /\ kids[k].min.x <= kids[k].max.x
          /\ kids[k].max.x <= parent.max.x
          /\ parent.min.y <= kids[k].min.y /\ kids[k].min.y <= kids[k].max.y
          /\ kids[k].max.y <= parent.max.y
    /\ \A x \in parent.min.x..parent.max.x, y \in parent.min.y..parent.max.y :
          \E k \in 1..Len(kids) : InBox(x, y, kids[k])
    /\ SumAreas(kids) = Area(parent)
    /\ \A x \in parent.min.x..(parent.max.x - 1),
          y \in parent.min.y..(parent.max.y - 1) :
          Cardinality({k \in 1..Len(kids) : SquareInBox(x, y, kids[k])}) = 1

RootBox == [min |-> Coord(0, 0), max |-> Coord(grid_dim.x, grid_dim.y)]

\* C2: tiling. Whenever the loop has split a parent box, at any split point
\* inside it, the four boxes just pushed tile that parent; and the partition list
\* as each level leaves it (the root, then 4 boxes, then 16) tiles the root
\* box (0,0)-(grid_dim).
C2_Tiling ==
    /\ (pc = "partition" /\ cursor > 1) =>
          Tiles(partitions[cursor - 1],
                SubSeq(new_partitions, 4 * cursor - 7, 4 * cursor - 4))
    /\ (partitions # <<>> /\ new_partitions = <<>>) => Tiles(RootBox, partitions)

\* C2 witness: 16 leaves after two levels, from a split strictly inside the
\* root and a split on the edge of a child, some leaf with area and some flat
C2_Witness ==
    /\ pc = "parallel"
    /\ Len(partitions) = LeafCount
    /\ Cardinality({k \in 1..LeafCount : Area(partitions[k]) > 0}) >= 5
    /\ \E k \in 1..LeafCount : Area(partitions[k]) = 0

\* C3: the boxes of two RouterThreads that run at the same time have no grid
\* coordinate in common.
C3_DisjointWorkerBoxes ==
    \A t1, t2 \in Running :
        t1 # t2 =>
            ~\E x \in 0..grid_dim.x, y \in 0..grid_dim.y :
                /\ InBox(x, y, [min |-> threads[t1].box_ne, max |-> threads[t1].box_sw])
                /\ InBox(x, y, [min |-> threads[t2].box_ne, max |-> threads[t2].box_sw])

MiscStarted == MiscThreads # {}

\* C4: phase ordering. Whenever the MISC RouterThread exists, all 16 leaf
\* workers exist and are done; a RouterThread exists only once both levels of
\* partitioning are over; and within an invocation, once a worker has started
\* neither special_arcs nor the partition list changes, and once the MISC
\* pass has started no leaf worker starts or changes.
C4_PhaseOrdering ==
    /\ [](MiscStarted =>
            /\ Cardinality(LeafThreads) = LeafCount
            /\ \A t \in LeafThreads : threads[t].state = "done")
    /\ [](threads # <<>> =>
            /\ PartitioningDone
            /\ level = Levels
            /\ new_partitions = <<>>)
    /\ [][(threads # <<>> /\ calls' = calls) =>
             /\ special_arcs' = special_arcs
             /\ partitions' = partitions
             /\ (MiscStarted =>
                   \A t \in LeafThreads : threads'[t] = threads[t])]_vars

\* C4 witness: the MISC pass is running, on a pool of two threads, and all 16
\* leaf workers exist
C4_Witness ==
    /\ pc = "misc"
    /\ numThreads >= 2
    /\ Cardinality(LeafThreads) = LeafCount
    /\ threads[Len(threads)].state = "running"

\* a wire name matches one of the five reserved patterns
MatchesAnyPattern(name) ==
    \/ Contains(name, PatFco)
    \/ Contains(name, PatQ6)
    \/ Contains(name, PatJ)
    \/ Contains(name, PatDdr)
    \/ Contains(name, PatPad)

\* the arc is special-cased: all its copies are in special_arcs, none is in
\* a partition of either level
OnlySpecial(a) ==
    /\ CopiesIn(a, special_arcs) = CopiesIn(a, arcs)
    /\ \A k \in 1..Len(partitions) : ~BagIn(a, partitions[k].arcs)
    /\ \A k \in 1..Len(new_partitions) : ~BagIn(a, new_partitions[k].arcs)

\* C5 as stated: every arc whose source wire name or sink wire name matches
\* any of the five patterns is special-cased by the pre-filter.
C5_AnyPatternEitherEnd ==
    PreFiltered =>
        \A a \in BagToSet(arcs) :
            (MatchesAnyPattern(WireName(a.source_wire))
                \/ MatchesAnyPattern(WireName(a.sink_wire))) => OnlySpecial(a)

\* C5 amended: every arc whose source wire name contains FCO_SLICE, Q6_SLICE,
\* 'J' or DDR, or whose sink wire name contains DDR or X126/Y20/PADDOD_PIO, is
\* in special_arcs from the pre-filter on and in no partition of either level.
C5_ReservedSpecial ==
    PreFiltered =>
        \A a \in BagToSet(arcs) :
            (\/ Contains(WireName(a.source_wire), PatFco)
             \/ Contains(WireName(a.source_wire), PatQ6)
             \/ Contains(WireName(a.source_wire), PatJ)
             \/ Contains(WireName(a.source_wire), PatDdr)
             \/ Contains(WireName(a.sink_wire), PatDdr)
             \/ Contains(WireName(a.sink_wire), PatPad)) => OnlySpecial(a)

\* C5 witness: after both levels, arcs whose two ends share a location are in
\* special_arcs for a source pattern and for each sink pattern
C5_Witness ==
    /\ PartitioningDone
    /\ \E a \in BagToSet(special_arcs) :
          a.source = a.sink /\ Contains(WireName(a.source_wire), PatFco)
    /\ \E a \in BagToSet(special_arcs) :
          a.source = a.sink /\ Contains(WireName(a.sink_wire), PatDdr)
    /\ \E a \in BagToSet(special_arcs) :
          a.source = a.sink /\ Contains(WireName(a.sink_wire), PatPad)

\* the (net, sink pin, candidate sink wire) triples of the host's nets that
\* are not global and have a driver cell
ArcTriples ==
    UNION {UNION {{<<k, u, w>> : w \in 1..Len(hostNets[k].users[u].wires)} :
                  u \in 1..Len(hostNets[k].users)} :
           k \in {n \in NetIds : ~hostNets[n].global /\ hostNets[n].driver = "cell"}}

\* the arc the claim expects for a triple
ArcOfTriple(t) ==
    [source_wire |-> hostNets[t[1]].source_wire,
     source |-> hostNets[t[1]].loc,
     sink_wire |-> hostNets[t[1]].users[t[2]].wires[t[3]],
     sink |-> hostNets[t[1]].users[t[2]].loc,
     net |-> t[1] - 1,
     name |-> NameOf(t[1])]

\* C6: extraction result. The returned arc list holds exactly one arc per
\* (net, sink pin, candidate sink wire) triple over the nets that are not
\* global and have a driver cell, with that net's source wire, driver
\* location, the sink wire, the sink location and the net's index; so a
\* global net contributes nothing and the count is the number of triples.
C6_ExtractionResult ==
    Extracted =>
        /\ BagCardinality(arcs) = Cardinality(ArcTriples)
        /\ \A t \in ArcTriples :
              CopiesIn(ArcOfTriple(t), arcs)
                  = Cardinality({t2 \in ArcTriples : ArcOfTriple(t2) = ArcOfTriple(t)})

\* C6 witness: an extraction over a global net and a net with a driver cell
\* whose pins have two candidate wires, two of its arcs being equal
C6_Witness ==
    /\ pc = "prefilter"
    /\ \E k \in NetIds : hostNets[k].global /\ hostNets[k].users # <<>>
    /\ \E a \in BagToSet(arcs) : arcs[a] = 2
    /\ BagCardinality(arcs) >= 3

\* C7: a non-global net without a driver makes the extraction emit nothing
\* for it and never panic.
C7_DriverlessIsSkipped ==
    (\E k \in NetIds : ~hostNets[k].global /\ hostNets[k].driver # "cell")
        => panicAt # "driver.unwrap"

\* C8: the returned bool is true only when no arc is left unrouted, and false
\* when unrouted arcs remain.
C8_ResultReportsFailure ==
    pc = "returned" => (result = "true" <=> unrouted = EmptyBag)

\* C9: with a None context the invocation panics at once: no net leaves the
\* host, no udata is written, no local is built, no worker exists and nothing
\* is returned.
C9_NullContextAborts ==
    ctxArg = None =>
        /\ pc \in {"idle", "panicked"}
        /\ pc = "panicked" => panicAt = "ctx.expect"
        /\ calls > 0 => pc = "panicked"
        /\ hostSlot = [k \in NetIds |-> k]
        /\ udata = [k \in NetIds |-> 0]
        /\ result = "none"
        /\ FreshLocals

\* C9 witness: an invocation with a None context against a host with nets
\* has panicked
C9_Witness ==
    /\ ctxArg = None
    /\ calls = 1
    /\ pc = "panicked"
    /\ Len(hostNets) >= 1

SetupLoopOver ==
    \/ pc \in {"route", "extract", "prefilter", "partition", "parallel", "misc",
               "returned"}
    \/ pc = "panicked" /\ panicAt \in {"max_by_key", "driver.unwrap"}

\* C10: one-time ownership transfer. After the setup loop of the first
\* invocation the Nets table holds, under every name of index_to_net and no
\* other, that net's own handle and users list, the net's udata is its
\* position in index_to_net, name_from_index leads back to the name, and the
\* host slot is null; every arc names exactly one net of the table; and a
\* later invocation against the same context never holds a net handle.
C10_OwnershipTransfer ==
    /\ (SetupLoopOver /\ calls = 1) =>
          /\ DOMAIN nets = {NameOf(k) : k \in NetIds}
          /\ DOMAIN users = DOMAIN nets
          /\ Len(index_to_net) = Len(hostNets)
          /\ \A p \in 1..Len(index_to_net) :
                LET name == index_to_net[p]
                IN /\ name \in DOMAIN nets
                   /\ NameOf(nets[name]) = name
                   /\ users[name] = hostNets[nets[name]].users
                   /\ udata[nets[name]] = p - 1
                   /\ name_from_index(udata[nets[name]]) = name
                   /\ hostSlot[nets[name]] = NullPtr
    /\ \A a \in BagToSet(arcs) :
          /\ Cardinality({name \in DOMAIN nets : udata[nets[name]] = a.net}) = 1
          /\ a.name \in DOMAIN nets
          /\ udata[nets[a.name]] = a.net
    /\ calls > 1 =>
          /\ DOMAIN nets = {}
          /\ pc \in {"setup", "route", "panicked"}

\* C10 witness: the second invocation against a context with two nets has
\* panicked on the first null slot
C10_Witness ==
    /\ calls = 2
    /\ Len(hostNets) = 2
    /\ pc = "panicked"
    /\ panicAt = "pin_mut"
    /\ \A k \in NetIds : hostSlot[k] = NullPtr /\ udata[k] = k - 1

====
